---- MODULE Spec2Model ----
(***************************************************************************)
(* DiceConfigManager: the configuration record of the dice, its text file, *)
(* its one-byte checksum and the discovery of the *_config.txt file.       *)
(*                                                                         *)
(* Text is a sequence of one-character strings; memory is a sequence of    *)
(* bytes 0..255.  The record is kept with the bytes the compiler puts      *)
(* between and after its members, because calculateChecksum reads the      *)
(* record as raw memory.                                                   *)
(*                                                                         *)
(* Where the code keeps a value in a local variable and reads it several   *)
(* times, the model writes  CHOOSE r \in {F(x) : x \in {e}} : TRUE,  which  *)
(* is F(e) with e evaluated once.                                          *)
(***************************************************************************)
EXTENDS Integers, Sequences, FiniteSets, TLC

\* ------------------------------------------------------------------ text

Chars(s) == [i \in 1..Len(s) |-> SubSeq(s, i, i)]

\* The printable ASCII characters, codes 32..126, in code order.
Printable ==
  Chars(" !") \o <<"DQUOTE">> \o Chars("#$%&'") \o <<"(", ")", "*">>
    \o Chars("+,-./0123456789:;<=>?@ABCDEFGHIJKLMNOPQRSTUVWXYZ[") \o <<"BSLASH">>
    \o Chars("]^_") \o <<"BQUOTE">> \o Chars("abcdefghijklmnopqrstuvwxyz{|}~")

Ord(c) ==
  CASE c = "\t" -> 9
    [] c = "\n" -> 10
    [] c = "\r" -> 13
    [] OTHER -> 31 + (CHOOSE i \in 1..Len(Printable) : Printable[i] = c)

Chr(b) ==
  CASE b = 9 -> "\t"
    [] b = 10 -> "\n"
    [] b = 13 -> "\r"
    [] OTHER -> Printable[b - 31]

\* isspace() of the C locale, on the characters the model uses.
IsSpace(c) == c \in {" ", "\t", "\n", "\r"}

DecDigits == Chars("0123456789")
HexDigitsUpper == Chars("0123456789ABCDEF")

IsDigit(c) == c \in {DecDigits[i] : i \in 1..10}

DigitVal(c) == (CHOOSE i \in 1..10 : DecDigits[i] = c) - 1

HexDigitsLower == Chars("0123456789abcdef")

IsHexDigit(c) ==
  c \in {HexDigitsUpper[i] : i \in 1..16} \cup {HexDigitsLower[i] : i \in 1..16}

HexVal(c) ==
  IF c \in {HexDigitsUpper[i] : i \in 1..16}
    THEN (CHOOSE i \in 1..16 : HexDigitsUpper[i] = c) - 1
    ELSE (CHOOSE i \in 1..16 : HexDigitsLower[i] = c) - 1

Pow2(n) == 2 ^ n

Pow10(n) == 10 ^ n

\* tolower() on the letters the parsers compare case-insensitively.
ToLower(c) ==
  IF Ord(c) >= 65 /\ Ord(c) <= 90 THEN Chr(Ord(c) + 32) ELSE c

LowerCase(s) == [i \in 1..Len(s) |-> ToLower(s[i])]

StartsWith(s, prefix) ==
  Len(s) >= Len(prefix) /\ SubSeq(s, 1, Len(prefix)) = prefix

\* String::endsWith
EndsWith(s, suffix) ==
  Len(s) >= Len(suffix) /\ SubSeq(s, Len(s) - Len(suffix) + 1, Len(s)) = suffix

\* strncpy(dst, src, n) followed by dst[n] = 0, read back as a C string:
\* the first n characters of src.
Truncate(s, n) == IF Len(s) > n THEN SubSeq(s, 1, n) ELSE s

\* ----------------------------------------------------------------- bytes

Bit(x, i) == (x \div Pow2(i)) % 2

\* a ^ b on uint8_t
Xor(a, b) ==
  LET d(i) == IF Bit(a, i) = Bit(b, i) THEN 0 ELSE Pow2(i)
  IN d(0) + d(1) + d(2) + d(3) + d(4) + d(5) + d(6) + d(7)

\* sum = 0; for (i = first; i <= last; i++) sum ^= mem[i];
\* bit k of the result is the parity of the bytes that have bit k set.
XorFold(mem, first, last) ==
  LET p(k) == (Cardinality({i \in first..last : Bit(mem[i], k) = 1}) % 2) * Pow2(k)
  IN p(0) + p(1) + p(2) + p(3) + p(4) + p(5) + p(6) + p(7)

\* (uint8_t)x and (int8_t)x of an int
U8(x) == x % 256

I8(x) == IF (x % 256) >= 128 THEN (x % 256) - 256 ELSE x % 256

\* A uint32_t is kept as its two 16-bit halves <<hi, lo>>.
U32(hi, lo) == <<hi, lo>>

U32Max == U32(65535, 65535)

\* acc * base + d on unsigned long, saturating as strtoul does (ULONG_MAX).
U32MulAdd(acc, base, d) ==
  LET low == acc[2] * base + d
      high == acc[1] * base + (low \div 65536)
  IN IF high >= 65536 THEN U32Max ELSE U32(high, low % 65536)

\* -x on unsigned long
U32Neg(x) ==
  IF x = U32(0, 0) THEN x
  ELSE IF x[2] = 0 THEN U32(65536 - x[1], 0)
  ELSE U32(65535 - x[1], 65536 - x[2])

\* ------------------------------------------------- printf conversions

RECURSIVE FmtU(_)
\* %u of a value below 2^31
FmtU(n) ==
  IF n < 10 THEN <<DecDigits[n + 1]>>
  ELSE FmtU(n \div 10) \o <<DecDigits[(n % 10) + 1]>>

\* %d
FmtD(n) == IF n < 0 THEN <<"-">> \o FmtU(0 - n) ELSE FmtU(n)

\* %u of a uint32_t: the last digit by long division of the two halves
\* by ten, the quotient (below 2^29) by FmtU
FmtU32(x) ==
  LET mid == (x[1] % 10) * 65536 + x[2]
      q == (x[1] \div 10) * 65536 + (mid \div 10)
      digit == <<DecDigits[(mid % 10) + 1]>>
  IN IF q = 0 THEN digit ELSE FmtU(q) \o digit

\* %02X
FmtHex2(b) == <<HexDigitsUpper[(b \div 16) + 1], HexDigitsUpper[(b % 16) + 1]>>

\* ------------------------------------------------- C library parsers

RECURSIVE SkipSpace(_, _)
SkipSpace(s, i) ==
  IF i <= Len(s) /\ IsSpace(s[i]) THEN SkipSpace(s, i + 1) ELSE i

IsSign(s, i) == i <= Len(s) /\ s[i] \in {"+", "-"}

IsMinus(s, i) == i <= Len(s) /\ s[i] = "-"

DigitIn(c, base) ==
  IF base = 16 THEN IsHexDigit(c) ELSE IsDigit(c) /\ DigitVal(c) < base

RECURSIVE StrtoulDigits(_, _, _, _)
StrtoulDigits(s, i, base, acc) ==
  IF i <= Len(s) /\ DigitIn(s[i], base)
    THEN CHOOSE r \in {StrtoulDigits(s, i + 1, base, a) :
                         a \in {U32MulAdd(acc, base, HexVal(s[i]))}} : TRUE
    ELSE acc

\* strtoul(s, NULL, 0): white space, a sign, 0x for hexadecimal, a leading
\* 0 for octal, otherwise decimal; digits up to the first other character;
\* no digits gives 0.
Strtoul0(s) ==
  LET i == SkipSpace(s, 1)
      j == IF IsSign(s, i) THEN i + 1 ELSE i
      isHex == /\ j + 2 <= Len(s)
               /\ s[j] = "0"
               /\ s[j + 1] \in {"x", "X"}
               /\ IsHexDigit(s[j + 2])
      base == IF isHex THEN 16
              ELSE IF j <= Len(s) /\ s[j] = "0" THEN 8 ELSE 10
      mag == StrtoulDigits(s, IF isHex THEN j + 2 ELSE j, base, U32(0, 0))
  IN IF IsMinus(s, i) THEN U32Neg(mag) ELSE mag

IntMax == 2147483647

RECURSIVE AtoiDigits(_, _, _)
\* the magnitude, or -1 when it does not fit an int
AtoiDigits(s, i, acc) ==
  IF i <= Len(s) /\ IsDigit(s[i])
    THEN IF acc > (IntMax - DigitVal(s[i])) \div 10
           THEN 0 - 1
           ELSE CHOOSE r \in {AtoiDigits(s, i + 1, a) :
                                a \in {acc * 10 + DigitVal(s[i])}} : TRUE
    ELSE acc

\* atoi(s), which is (int)strtol(s, NULL, 10) and saturates
Atoi(s) ==
  LET i == SkipSpace(s, 1)
      j == IF IsSign(s, i) THEN i + 1 ELSE i
      mag == AtoiDigits(s, j, 0)
  IN IF mag < 0 THEN (IF IsMinus(s, i) THEN (0 - IntMax) - 1 ELSE IntMax)
     ELSE IF IsMinus(s, i) THEN 0 - mag ELSE mag

\* ------------------------------------------------------------- float
\* A float is its IEEE-754 single fields: sign s, biased exponent e and
\* fraction m; a normal number is (2^23 + m) * 2^(e - 150).

F32(s, e, m) == [s |-> s, e |-> e, m |-> m]

FloatIsNaN(f) == f.e = 255 /\ f.m # 0

FloatIsInf(f) == f.e = 255 /\ f.m = 0

FloatIsZero(f) == f.e = 0 /\ f.m = 0

\* f <= 0, false for a NaN as every ordered comparison is
FloatLeZero(f) == ~FloatIsNaN(f) /\ (FloatIsZero(f) \/ f.s = 1)

\* f > 0
FloatGtZero(f) == ~FloatIsNaN(f) /\ ~FloatIsZero(f) /\ f.s = 0

\* the four bytes of the float in memory
FloatBytes(f) ==
  << f.m % 256,
     (f.m \div 256) % 256,
     (f.e % 2) * 128 + (f.m \div 65536),
     f.s * 128 + (f.e \div 2) >>

RoundHalfEven(num, den) ==
  LET q == num \div den
      r == num % den
  IN IF 2 * r > den \/ (2 * r = den /\ q % 2 = 1) THEN q + 1 ELSE q

\* |f| * 100 rounded to an integer, f finite and below 2^24.
\* 100 / 2^k is written 25 / 2^(k-2) to stay within the integers.
Hundredths(f) ==
  LET mfull == Pow2(23) + f.m
      k == 150 - f.e
  IN IF f.e = 0 \/ k >= 33 THEN 0
     ELSE IF k >= 2 THEN RoundHalfEven(mfull * 25, Pow2(k - 2))
     ELSE IF k = 1 THEN mfull * 50
     ELSE mfull * 100

\* %.2f
FmtF2(f) ==
  LET sign == IF f.s = 1 THEN <<"-">> ELSE <<>>
      h == Hundredths(f)
  IN IF FloatIsNaN(f) THEN Chars("nan")
     ELSE IF FloatIsInf(f) THEN sign \o Chars("inf")
     ELSE sign \o FmtU(h \div 100) \o <<".">>
            \o <<DecDigits[((h \div 10) % 10) + 1], DecDigits[(h % 10) + 1]>>

\* The float nearest to n / d, with the given sign, for 0 <= n / d < 2^24
\* and d <= 100: the fraction is scaled by the power of two that brings it
\* into [2^23, 2^24) and rounded to an integer.
DecToFloat(neg, n, d) ==
  LET sign == IF neg THEN 1 ELSE 0
      need == (Pow2(23) * d + n - 1) \div n
      up == CHOOSE j \in 0..30 : Pow2(j) >= need /\ (j = 0 \/ Pow2(j - 1) < need)
      mfull == RoundHalfEven(n * Pow2(up), d)
      carry == mfull = Pow2(24)
  IN IF n = 0 THEN F32(sign, 0, 0)
     ELSE F32(sign,
              150 - up + (IF carry THEN 1 ELSE 0),
              IF carry THEN 0 ELSE mfull - Pow2(23))

RECURSIVE CountDigits(_, _)
CountDigits(s, i) ==
  IF i <= Len(s) /\ IsDigit(s[i]) THEN 1 + CountDigits(s, i + 1) ELSE 0

RECURSIVE DecValue(_, _, _, _)
DecValue(s, i, n, acc) ==
  IF n = 0 THEN acc ELSE DecValue(s, i + 1, n - 1, acc * 10 + DigitVal(s[i]))

\* (float)atof(s) on the texts the model reads: white space, a sign, then
\* "nan", "inf", or decimal digits with an optional fraction; anything
\* else converts nothing and gives 0.0.  (Exponents and hexadecimal
\* floats are not among the texts the model draws.)
Atof(s) ==
  LET i == SkipSpace(s, 1)
      j == IF IsSign(s, i) THEN i + 1 ELSE i
      neg == IsMinus(s, i)
      word == LowerCase(SubSeq(s, j, IF j + 2 <= Len(s) THEN j + 2 ELSE Len(s)))
      ni == CountDigits(s, j)
      hasPoint == j + ni <= Len(s) /\ s[j + ni] = "."
      nf == IF hasPoint THEN CountDigits(s, j + ni + 1) ELSE 0
      whole == DecValue(s, j, ni, 0)
      all == DecValue(s, j + ni + 1, nf, whole)
  IN IF word = Chars("nan") THEN F32(0, 255, Pow2(22))
     ELSE IF word = Chars("inf") THEN F32(IF neg THEN 1 ELSE 0, 255, 0)
     ELSE IF ni + nf = 0 THEN F32(0, 0, 0)
     ELSE DecToFloat(neg, all, Pow10(nf))

\* ------------------------------------------------- struct DiceConfig
\* diceId and the MAC addresses are byte arrays, the colours uint16_t,
\* rssiLimit an int8_t, randomSwitchPoint and checksum uint8_t, the flags
\* bool, tumbleConstant a float, deepSleepTimeout a uint32_t.  padding
\* holds the bytes at offsets 49, 50, 51 (before the float, which is
\* aligned to 4) and 61, 62, 63 (after checksum, up to the size of 64).

DiceIdSize == 16

MacSize == 6

SizeofDiceConfig == 64

ZeroBytes(n) == [i \in 1..n |-> 0]

U16Bytes(x) == <<x % 256, x \div 256>>

U32Bytes(x) == U16Bytes(x[2]) \o U16Bytes(x[1])

BoolByte(b) == IF b THEN 1 ELSE 0

\* The record as the bytes (uint8_t*)&config points to; index i + 1 is
\* offset i.
Memory(c) ==
  c.diceId                                          \* 0..15
    \o c.deviceA_mac \o c.deviceB1_mac \o c.deviceB2_mac   \* 16..33
    \o U16Bytes(c.x_background) \o U16Bytes(c.y_background)
    \o U16Bytes(c.z_background)
    \o U16Bytes(c.entang_ab1_color) \o U16Bytes(c.entang_ab2_color)  \* 34..43
    \o <<U8(c.rssiLimit)>>                            \* 44
    \o <<BoolByte(c.isSMD), BoolByte(c.isNano), BoolByte(c.alwaysSeven)>>
    \o <<c.randomSwitchPoint>>                        \* 48
    \o SubSeq(c.padding, 1, 3)                        \* 49..51
    \o FloatBytes(c.tumbleConstant)                   \* 52..55
    \o U32Bytes(c.deepSleepTimeout)                   \* 56..59
    \o <<c.checksum>>                                 \* 60
    \o SubSeq(c.padding, 4, 6)                        \* 61..63

\* The fields of the record, without the bytes between them.
Fields ==
  {"diceId", "deviceA_mac", "deviceB1_mac", "deviceB2_mac", "x_background",
   "y_background", "z_background", "entang_ab1_color", "entang_ab2_color",
   "rssiLimit", "isSMD", "isNano", "alwaysSeven", "randomSwitchPoint",
   "tumbleConstant", "deepSleepTimeout", "checksum"}

RECURSIVE CStringFrom(_, _)
CStringFrom(bytes, i) ==
  IF i > Len(bytes) \/ bytes[i] = 0 THEN <<>>
  ELSE <<Chr(bytes[i])>> \o CStringFrom(bytes, i + 1)

\* a char array read as a C string (%s, strlen)
CString(bytes) == CStringFrom(bytes, 1)

\* strncpy(dst, src, sizeof(dst) - 1); dst[sizeof(dst) - 1] = 0:
\* the characters of src that fit, the rest of dst filled with zeros
StrncpyId(src) ==
  [i \in 1..DiceIdSize |->
     IF i <= Len(src) /\ i <= DiceIdSize - 1 THEN Ord(src[i]) ELSE 0]

\* strcpy(dst, src): Len(src) + 1 bytes written, the rest of dst untouched
Strcpy(dst, src) ==
  [i \in 1..Len(dst) |->
     IF i <= Len(src) THEN Ord(src[i])
     ELSE IF i = Len(src) + 1 THEN 0
     ELSE dst[i]]

\* void calculateChecksum(DiceConfig& config):
\* for (i = 0; i < sizeof(DiceConfig) - 1; i++) sum ^= ptr[i];
calculateChecksum(c) ==
  [c EXCEPT !.checksum =
     CHOOSE sum \in {XorFold(ptr, 1, SizeofDiceConfig - 1) : ptr \in {Memory(c)}} : TRUE]

\* bool validateChecksum(const DiceConfig& config); temp is a copy of the
\* whole object, padding included.
validateChecksum(c) ==
  LET temp == c
      originalChecksum == temp.checksum
  IN calculateChecksum(temp).checksum = originalChecksum

\* initDefaultConfig without its last assignment, checksum = 0
initDefaultConfig_KeepsChecksum(c) ==
  [ diceId |-> Strcpy(c.diceId, Chars("DEFAULT")),
    deviceA_mac |-> ZeroBytes(MacSize),
    deviceB1_mac |-> ZeroBytes(MacSize),
    deviceB2_mac |-> ZeroBytes(MacSize),
    x_background |-> 63488,
    y_background |-> 2016,
    z_background |-> 31,
    entang_ab1_color |-> 65535,
    entang_ab2_color |-> 0,
    rssiLimit |-> 0 - 70,
    isSMD |-> FALSE,
    isNano |-> FALSE,
    alwaysSeven |-> FALSE,
    randomSwitchPoint |-> 50,
    tumbleConstant |-> F32(0, 128, 2097152),
    deepSleepTimeout |-> U32(4, 37856),
    checksum |-> c.checksum,
    padding |-> c.padding ]

\* void initDefaultConfig(): every member assigned; of diceId only the
\* first eight bytes ("DEFAULT" and its terminator); padding untouched.
initDefaultConfig(c) ==
  [ diceId |-> Strcpy(c.diceId, Chars("DEFAULT")),
    deviceA_mac |-> ZeroBytes(MacSize),
    deviceB1_mac |-> ZeroBytes(MacSize),
    deviceB2_mac |-> ZeroBytes(MacSize),
    x_background |-> 63488,
    y_background |-> 2016,
    z_background |-> 31,
    entang_ab1_color |-> 65535,
    entang_ab2_color |-> 0,
    rssiLimit |-> 0 - 70,
    isSMD |-> FALSE,
    isNano |-> FALSE,
    alwaysSeven |-> FALSE,
    randomSwitchPoint |-> 50,
    tumbleConstant |-> F32(0, 128, 2097152),
    deepSleepTimeout |-> U32(4, 37856),
    checksum |-> 0,
    padding |-> c.padding ]

\* ------------------------------------------------------- private parsers

RECURSIVE TrimLeft(_)
TrimLeft(s) == IF Len(s) > 0 /\ IsSpace(s[1]) THEN TrimLeft(Tail(s)) ELSE s

RECURSIVE TrimRight(_)
\* end stops at the first character: while (end > str && isspace(*end))
TrimRight(s) ==
  IF Len(s) > 1 /\ IsSpace(s[Len(s)]) THEN TrimRight(SubSeq(s, 1, Len(s) - 1))
  ELSE s

\* void trim(char* str)
trim(s) == TrimRight(TrimLeft(s))

\* bool parseBool(const char* str)
parseBool(s) == LowerCase(s) = Chars("true") \/ s = Chars("1")

RECURSIVE CountHex(_, _)
CountHex(s, i) ==
  IF i <= Len(s) /\ IsHexDigit(s[i]) THEN 1 + CountHex(s, i + 1) ELSE 0

\* One %x of sscanf from position i: white space, a sign, 0x, then at
\* least one hexadecimal digit.  <<matched, (uint8_t)value, next position>>
ScanHex(s, i) ==
  LET j == SkipSpace(s, i)
      k == IF IsSign(s, j) THEN j + 1 ELSE j
      prefixed == /\ k + 2 <= Len(s)
                  /\ s[k] = "0"
                  /\ s[k + 1] \in {"x", "X"}
                  /\ IsHexDigit(s[k + 2])
      d == IF prefixed THEN k + 2 ELSE k
      n == CountHex(s, d)
      mag == StrtoulDigits(s, d, 16, U32(0, 0))
      val == IF IsMinus(s, j) THEN U32Neg(mag) ELSE mag
  IN <<n > 0, val[2] % 256, d + n>>

RECURSIVE ScanMac(_, _, _)
\* sscanf(str, "%x:%x:%x:%x:%x:%x", ...) == 6: the bytes read, or <<>>
ScanMac(s, i, got) ==
  CHOOSE res \in
    { IF ~r[1] THEN <<>>
      ELSE IF Len(got) = MacSize - 1 THEN Append(got, r[2])
      ELSE IF r[3] <= Len(s) /\ s[r[3]] = ":"
        THEN ScanMac(s, r[3] + 1, Append(got, r[2]))
      ELSE <<>> : r \in {ScanHex(s, i)} } : TRUE

\* bool parseMacAddress(const char* str, uint8_t* mac): mac is written
\* only when all six groups were read.
parseMacAddress(s, mac) ==
  LET got == ScanMac(s, 1, <<>>)
  IN IF Len(got) = MacSize THEN [ok |-> TRUE, mac |-> got]
     ELSE [ok |-> FALSE, mac |-> mac]

\* String macToString(const uint8_t* mac)
macToString(mac) ==
  FmtHex2(mac[1]) \o <<":">> \o FmtHex2(mac[2]) \o <<":">> \o FmtHex2(mac[3])
    \o <<":">> \o FmtHex2(mac[4]) \o <<":">> \o FmtHex2(mac[5]) \o <<":">>
    \o FmtHex2(mac[6])

\* ----------------------------------------------------------- save text

\* Print::println(text) ends the line with CR LF; printf("...\n") with LF.
Println(text) == Chars(text) \o <<"\r", "\n">>

KeyLine(key, value) == Chars(key) \o <<"=">> \o value \o <<"\n">>

BoolText(b) == IF b THEN Chars("true") ELSE Chars("false")

\* What save() writes between opening and closing the file.
SaveText(c) ==
  Println("# Dice Configuration File")
    \o Println("# Auto-generated - Edit with care")
    \o Println("")
    \o Println("# Device Identification")
    \o KeyLine("diceId", CString(c.diceId))
    \o Println("")
    \o Println("# Device MAC Addresses (format: AA:BB:CC:DD:EE:FF)")
    \o KeyLine("deviceA_mac", macToString(c.deviceA_mac))
    \o KeyLine("deviceB1_mac", macToString(c.deviceB1_mac))
    \o KeyLine("deviceB2_mac", macToString(c.deviceB2_mac))
    \o Println("")
    \o Println("# Display Colors (16-bit RGB565 format)")
    \o KeyLine("x_background", FmtU(c.x_background))
    \o KeyLine("y_background", FmtU(c.y_background))
    \o KeyLine("z_background", FmtU(c.z_background))
    \o KeyLine("entang_ab1_color", FmtU(c.entang_ab1_color))
    \o KeyLine("entang_ab2_color", FmtU(c.entang_ab2_color))
    \o Println("")
    \o Println("# RSSI Settings")
    \o KeyLine("rssiLimit", FmtD(c.rssiLimit))
    \o Println("")
    \o Println("# Hardware Configuration")
    \o KeyLine("isSMD", BoolText(c.isSMD))
    \o KeyLine("isNano", BoolText(c.isNano))
    \o KeyLine("alwaysSeven", BoolText(c.alwaysSeven))
    \o Println("")
    \o Println("# Operational Parameters")
    \o KeyLine("randomSwitchPoint", FmtU(c.randomSwitchPoint))
    \o KeyLine("tumbleConstant", FmtF2(c.tumbleConstant))
    \o KeyLine("deepSleepTimeout", FmtU32(c.deepSleepTimeout))
    \o Println("")
    \o Println("# Checksum (auto-calculated)")
    \o KeyLine("checksum", FmtU(c.checksum))

\* ----------------------------------------------------------- load text

LineBufSize == 128

\* readBytesUntil('\n', line, sizeof(line) - 1): characters are taken until
\* the terminator, the end of the file or the buffer limit; the number taken.
LineLength(text, pos) ==
  LET rest == Len(text) - pos + 1
      limit == IF rest < LineBufSize - 1 THEN rest ELSE LineBufSize - 1
      stops == {n \in 0..limit : n = limit \/ text[pos + n] = "\n"}
  IN CHOOSE n \in stops : \A m \in stops : n <= m

\* The if / else-if chain of load() on a key and its value.
AssignKey(c, key, value) ==
  IF key = Chars("diceId") THEN [c EXCEPT !.diceId = StrncpyId(value)]
  ELSE IF key = Chars("deviceA_mac")
    THEN [c EXCEPT !.deviceA_mac = parseMacAddress(value, @).mac]
  ELSE IF key = Chars("deviceB1_mac")
    THEN [c EXCEPT !.deviceB1_mac = parseMacAddress(value, @).mac]
  ELSE IF key = Chars("deviceB2_mac")
    THEN [c EXCEPT !.deviceB2_mac = parseMacAddress(value, @).mac]
  ELSE IF key = Chars("x_background")
    THEN [c EXCEPT !.x_background = Strtoul0(value)[2]]
  ELSE IF key = Chars("y_background")
    THEN [c EXCEPT !.y_background = Strtoul0(value)[2]]
  ELSE IF key = Chars("z_background")
    THEN [c EXCEPT !.z_background = Strtoul0(value)[2]]
  ELSE IF key = Chars("entang_ab1_color")
    THEN [c EXCEPT !.entang_ab1_color = Strtoul0(value)[2]]
  ELSE IF key = Chars("entang_ab2_color")
    THEN [c EXCEPT !.entang_ab2_color = Strtoul0(value)[2]]
  ELSE IF key = Chars("rssiLimit") THEN [c EXCEPT !.rssiLimit = I8(Atoi(value))]
  ELSE IF key = Chars("isSMD") THEN [c EXCEPT !.isSMD = parseBool(value)]
  ELSE IF key = Chars("isNano") THEN [c EXCEPT !.isNano = parseBool(value)]
  ELSE IF key = Chars("alwaysSeven")
    THEN [c EXCEPT !.alwaysSeven = parseBool(value)]
  ELSE IF key = Chars("randomSwitchPoint")
    THEN [c EXCEPT !.randomSwitchPoint = U8(Atoi(value))]
  ELSE IF key = Chars("tumbleConstant")
    THEN [c EXCEPT !.tumbleConstant = Atof(value)]
  ELSE IF key = Chars("deepSleepTimeout")
    THEN [c EXCEPT !.deepSleepTimeout = Strtoul0(value)]
  ELSE IF key = Chars("checksum") THEN [c EXCEPT !.checksum = U8(Atoi(value))]
  ELSE c

\* if (line[0] == '\0' || line[0] == '#') continue;  and, with no '=',
\* continue as well
IsSkipped(line) ==
  line = <<>> \/ line[1] = "#" \/ \A i \in 1..Len(line) : line[i] # "="

\* The line split at its first '=' (strchr): <<trimmed key, trimmed value>>
SplitAtEquals(line) ==
  CHOOSE kv \in
    { <<trim(SubSeq(line, 1, sep - 1)), trim(SubSeq(line, sep + 1, Len(line)))>> :
        sep \in {CHOOSE i \in 1..Len(line) :
                   line[i] = "=" /\ \A j \in 1..(i - 1) : line[j] # "="} } : TRUE

\* The buffer after the carriage return is removed and trim(line) is done
CleanLine(raw) ==
  trim(IF Len(raw) > 0 /\ raw[Len(raw)] = "\r" THEN SubSeq(raw, 1, Len(raw) - 1)
       ELSE raw)

\* One pass of the body of the while loop of load(): the record after
\* the line read into the buffer, whatever the line holds.
ApplyLine(c, raw) ==
  CHOOSE r \in
    { IF IsSkipped(line) THEN c
      ELSE CHOOSE a \in {AssignKey(c, kv[1], kv[2]) : kv \in {SplitAtEquals(line)}} : TRUE :
      line \in {CleanLine(raw)} } : TRUE

\* What one readBytesUntil leaves: <<the line read, the next position>>
ReadLine(text, pos) ==
  CHOOSE r \in
    { <<SubSeq(text, pos, pos + n - 1),
        IF pos + n <= Len(text) /\ text[pos + n] = "\n" /\ n < LineBufSize - 1
          THEN pos + n + 1 ELSE pos + n>> :
      n \in {LineLength(text, pos)} } : TRUE

RECURSIVE ParseFrom(_, _, _)
\* while (file.available()) { ... }
ParseFrom(text, pos, c) ==
  IF pos > Len(text) THEN c
  ELSE CHOOSE r \in
         { ParseFrom(text, st[1], st[2]) :
             st \in { <<rd[2], ApplyLine(c, rd[1])>> : rd \in {ReadLine(text, pos)} } } : TRUE

\* The record after the parsing loop of load() has read the whole file.
Decode(text, c) == ParseFrom(text, 1, c)

\* --------------------------------------------------------- the manager

VARIABLES
  config,      \* DiceConfig _config
  configPath,  \* char _configPath[64], as a C string
  lastError,   \* char _lastError[128], as a C string
  mounted,     \* whether LittleFS is mounted
  files,       \* the files of the LittleFS root: path -> content
  last,        \* the call made last: its name, file argument, result and
               \* the calls it made in turn
  steps        \* the number of calls made so far

vars == <<config, configPath, lastError, mounted, files, last, steps>>

PathBufSize == 64

DefaultPath == Chars("/config.txt")

ConfigSuffix == Chars("_config.txt")

NoError == ""

\* void setError(const char* error): every message of the source is
\* shorter than the buffer.
setError(error) == error

\* LittleFS.open(filename, "r") gives a file
CanOpenRead(fs, isMounted, filename) == isMounted /\ filename \in DOMAIN fs

Put(fs, filename, text) ==
  [p \in DOMAIN fs \cup {filename} |-> IF p = filename THEN text ELSE fs[p]]

RECURSIVE ScanDir(_, _, _, _)
\* The while (file) loop of findConfigFile over the names openNextFile
\* gives: <<matchCount, firstMatch>>
ScanDir(listing, i, matchCount, firstMatch) ==
  IF i > Len(listing) THEN <<matchCount, firstMatch>>
  ELSE IF EndsWith(listing[i], ConfigSuffix)
    THEN ScanDir(listing, i + 1, matchCount + 1,
                 IF matchCount + 1 = 1
                   THEN Truncate(listing[i], PathBufSize - 1)
                   ELSE firstMatch)
  ELSE ScanDir(listing, i + 1, matchCount, firstMatch)

\* findConfigFile taking the first match when there are several
findConfigFile_FirstOfSeveral(listing, rootOk, maxLen) ==
  LET scan == ScanDir(listing, 1, 0, <<>>)
      matchCount == scan[1]
      firstMatch == scan[2]
  IN IF ~rootOk THEN [found |-> FALSE, path |-> <<>>, error |-> NoError]
     ELSE IF matchCount >= 1
       THEN [found |-> TRUE,
             path |-> IF firstMatch[1] # "/"
                        THEN Truncate(<<"/">> \o firstMatch, maxLen - 1)
                        ELSE Truncate(firstMatch, maxLen - 1),
             error |-> NoError]
     ELSE [found |-> FALSE, path |-> <<>>,
           error |-> setError("No *_config.txt file found")]

\* bool findConfigFile(char* foundPath, size_t maxLen).  rootOk: the root
\* opens and is a directory.  error is NoError when setError is not called.
findConfigFile(listing, rootOk, maxLen) ==
  LET scan == ScanDir(listing, 1, 0, <<>>)
      matchCount == scan[1]
      firstMatch == scan[2]
  IN IF ~rootOk THEN [found |-> FALSE, path |-> <<>>, error |-> NoError]
     ELSE IF matchCount = 1
       THEN [found |-> TRUE,
             path |-> IF firstMatch[1] # "/"
                        THEN Truncate(<<"/">> \o firstMatch, maxLen - 1)
                        ELSE Truncate(firstMatch, maxLen - 1),
             error |-> NoError]
     ELSE IF matchCount = 0
       THEN [found |-> FALSE, path |-> <<>>,
             error |-> setError("No *_config.txt file found")]
     ELSE [found |-> FALSE, path |-> <<>>,
           error |-> setError("Multiple *_config.txt files found")]

\* LoadDecoded verifying the checksum also when it is 0
LoadDecoded_AlwaysVerifies(decoded, err) ==
  IF ~validateChecksum(decoded)
    THEN [config |-> decoded,
          lastError |-> setError("Checksum validation failed"),
          ret |-> FALSE]
    ELSE [config |-> decoded, lastError |-> err, ret |-> TRUE]

\* LoadDecoded without "success = false"
LoadDecoded_ReportsSuccess(decoded, err) ==
  IF decoded.checksum # 0 /\ ~validateChecksum(decoded)
    THEN [config |-> decoded,
          lastError |-> setError("Checksum validation failed"),
          ret |-> TRUE]
    ELSE [config |-> decoded, lastError |-> err, ret |-> TRUE]

\* The end of load(), after file.close(): the checksum is verified when
\* it is not 0.
LoadDecoded(decoded, err) ==
  IF decoded.checksum # 0 /\ ~validateChecksum(decoded)
    THEN [config |-> decoded,
          lastError |-> setError("Checksum validation failed"),
          ret |-> FALSE]
    ELSE [config |-> decoded, lastError |-> err, ret |-> TRUE]

\* load resetting the record to the defaults before it reads the file
load_FromDefaults(c, err, fs, isMounted, filename) ==
  IF ~CanOpenRead(fs, isMounted, filename)
    THEN [config |-> c,
          lastError |-> setError("Failed to open config file"),
          ret |-> FALSE]
    ELSE CHOOSE r \in {LoadDecoded(d, err) :
                         d \in {Decode(fs[filename], initDefaultConfig(c))}} : TRUE

\* bool load(const char* filename): the record, the last error and the
\* result.
load(c, err, fs, isMounted, filename) ==
  IF ~CanOpenRead(fs, isMounted, filename)
    THEN [config |-> c,
          lastError |-> setError("Failed to open config file"),
          ret |-> FALSE]
    ELSE CHOOSE r \in {LoadDecoded(d, err) : d \in {Decode(fs[filename], c)}} : TRUE

\* bool validate()
validate(c) ==
  LET v1 == ~(Len(CString(c.diceId)) = 0)
      v2 == ~(c.randomSwitchPoint > 100)
      v3 == ~FloatLeZero(c.tumbleConstant)
      v4 == ~(c.checksum # 0 /\ ~validateChecksum(c))
  IN v1 /\ v2 /\ v3 /\ v4

\* The end of begin(), from "if (!load())": the path is established.
BeginLoad(c, err, fs, path1, explicit) ==
  CHOOSE r \in
    { [ret |-> TRUE,
       config |-> IF loaded.ret THEN loaded.config
                  ELSE initDefaultConfig(loaded.config),
       configPath |-> path1, lastError |-> loaded.lastError,
       mounted |-> TRUE, files |-> fs,
       calls |-> (IF explicit THEN <<"LittleFS.begin">>
                  ELSE <<"LittleFS.begin", "findConfigFile">>)
                 \o (IF loaded.ret THEN <<"load">> ELSE <<"load", "setDefaults">>),
       find |-> IF explicit THEN "none" ELSE "found"] :
      loaded \in {load(c, err, fs, TRUE, path1)} } : TRUE

\* begin returning false when load() fails
begin_LoadFailureFatal(c, path, err, fs, path0, explicit, mount, listing, rootOk) ==
  LET fs1 == IF mount = "formatted" THEN <<>> ELSE fs
      fatal(r) == [r EXCEPT !.ret = Len(r.calls) > 0 /\ r.calls[Len(r.calls)] = "load"]
  IN IF mount = "fail"
       THEN [ret |-> FALSE, config |-> c, configPath |-> path,
             lastError |-> setError("LittleFS mount failed"),
             mounted |-> FALSE, files |-> fs,
             calls |-> <<"LittleFS.begin">>, find |-> "none"]
     ELSE IF explicit
       THEN fatal(BeginLoad(c, err, fs1, Truncate(path0, PathBufSize - 1), TRUE))
     ELSE CHOOSE r \in
            { IF found.found
                THEN fatal(BeginLoad(c, err, fs1, found.path, FALSE))
                ELSE [ret |-> TRUE, config |-> initDefaultConfig(c),
                      configPath |-> DefaultPath,
                      lastError |-> IF found.error = NoError THEN err
                                    ELSE found.error,
                      mounted |-> TRUE, files |-> fs1,
                      calls |-> <<"LittleFS.begin", "findConfigFile", "setDefaults">>,
                      find |-> IF rootOk THEN "failed" ELSE "noroot"] :
              found \in {findConfigFile(listing, rootOk, PathBufSize)} } : TRUE

\* bool begin(const char* configPath, bool formatOnFail), given what the
\* file system answers: mount is "ok", "formatted" (the mount failed and
\* formatOnFail made LittleFS format the partition and mount it) or "fail";
\* listing is the names openNextFile gives, rootOk whether the root opens
\* as a directory.
begin(c, path, err, fs, path0, explicit, mount, listing, rootOk) ==
  LET fs1 == IF mount = "formatted" THEN <<>> ELSE fs
  IN IF mount = "fail"
       THEN [ret |-> FALSE, config |-> c, configPath |-> path,
             lastError |-> setError("LittleFS mount failed"),
             mounted |-> FALSE, files |-> fs,
             calls |-> <<"LittleFS.begin">>, find |-> "none"]
     ELSE IF explicit
       THEN BeginLoad(c, err, fs1, Truncate(path0, PathBufSize - 1), TRUE)
     ELSE CHOOSE r \in
            { IF found.found
                THEN BeginLoad(c, err, fs1, found.path, FALSE)
                ELSE [ret |-> TRUE, config |-> initDefaultConfig(c),
                      configPath |-> DefaultPath,
                      lastError |-> IF found.error = NoError THEN err
                                    ELSE found.error,
                      mounted |-> TRUE, files |-> fs1,
                      calls |-> <<"LittleFS.begin", "findConfigFile", "setDefaults">>,
                      find |-> IF rootOk THEN "failed" ELSE "noroot"] :
              found \in {findConfigFile(listing, rootOk, PathBufSize)} } : TRUE

\* bool save(const char* filename); writable: LittleFS.open(filename, "w")
\* gives a file.
save(c, err, fs, filename, writable) ==
  CHOOSE r \in
    { IF ~writable
        THEN [ret |-> FALSE, config |-> summed, files |-> fs,
              lastError |-> setError("Failed to open config file for writing")]
        ELSE [ret |-> TRUE, config |-> summed,
              files |-> Put(fs, filename, SaveText(summed)), lastError |-> err] :
      summed \in {calculateChecksum(c)} } : TRUE

\* ------------------------------------------------------------ inputs

MaxSteps == 2

\* What memory that was never written may hold.
UninitBytes == {0, 165}

LongName ==
  [i \in 1..(PathBufSize - 1 - Len(ConfigSuffix)) |-> "a"] \o ConfigSuffix

PathA == Chars("/a_config.txt")

PathB == Chars("/b_config.txt")

PathUpper == Chars("/A_CONFIG.TXT")

\* A hand-written file: no checksum to verify, spaces, CR LF, a comment,
\* an unknown key, a line without '=', a malformed MAC address.
FileManual ==
  Chars("# dice\n diceId = TEST1 \r\ndeviceA_mac=AA:bb:0C:DD:EE:0f\n")
    \o Chars("deviceB1_mac=zz\nx_background=0x1234\nrssiLimit=-60\n")
    \o Chars("isSMD=TRUE\nrandomSwitchPoint=100\ntumbleConstant=0.01\n")
    \o Chars("foo=bar\nnoequals\n\nchecksum=0\n")

\* A file whose checksum line does not fit its other lines.
FileBadSum == Chars("diceId=BAD\nisNano=1\nchecksum=7\n")

\* A file that names one field only.
FilePartial == Chars("alwaysSeven=true\n")

\* A file whose first line is a comment longer than the line buffer: 127
\* characters of comment, then isNano=true before the line feed; and a MAC
\* address of five groups.
FileLong ==
  <<"#">> \o [i \in 1..(LineBufSize - 2) |-> "-"]
    \o Chars("isNano=true\ndeviceB2_mac=1:2:3:4:5\nchecksum=0\n")

Disks ==
  { <<>>,
    [p \in {PathA, DefaultPath} |-> IF p = PathA THEN FileManual ELSE FilePartial],
    [p \in {PathA, PathB} |-> IF p = PathA THEN FileBadSum ELSE FileManual],
    [p \in {<<"/">> \o LongName, PathUpper, DefaultPath} |->
       IF p = DefaultPath THEN FileLong ELSE FileManual] }

PathInputs == {DefaultPath, PathA}

DiceIdInputs == {<<>>, Chars("B2")}

MacInputs == {<<1, 2, 3, 4, 5, 254>>}

RssiInputs == {0 - 40}

\* Writes through the reference getConfig() gives.
FieldWrites ==
  { <<"randomSwitchPoint", 100>>, <<"randomSwitchPoint", 101>>,
    <<"tumbleConstant", F32(0, 0, 0)>>,           \* 0.0
    <<"tumbleConstant", F32(0, 120, 2348810)>>,   \* 0.01
    <<"tumbleConstant", F32(0, 118, 0)>>,         \* 0.001953125
    <<"tumbleConstant", F32(0, 255, 4194304)>>,   \* NaN
    <<"checksum", 7>> }

Orders(S) ==
  {f \in [1..Cardinality(S) -> S] : \A i, j \in 1..Cardinality(S) : f[i] = f[j] => i = j}

\* file.name() is the path, or the path without its leading '/', by the
\* version of the core; openNextFile gives the entries in some order.
Listings(fs) ==
  { [i \in 1..Len(order) |-> IF full THEN order[i] ELSE Tail(order[i])] :
      order \in Orders(DOMAIN fs), full \in BOOLEAN }

MountAnswers(isMounted, formatOnFail) ==
  IF isMounted THEN {"ok"}
  ELSE IF formatOnFail THEN {"ok", "formatted", "fail"}
  ELSE {"ok", "fail"}

\* ------------------------------------------------------------ actions

Called(op, file, ret, calls, find) ==
  /\ last' = [op |-> op, file |-> file, ret |-> ret, calls |-> calls, find |-> find]
  /\ steps' = steps + 1

\* how begin() was called: with a path, or with nullptr
NoPath == <<>>

\* DiceConfigManager(): the object may live in memory that was written
\* before, so what strcpy and the member assignments do not write is
\* any byte.
Init ==
  /\ \E g \in UninitBytes :
       config = initDefaultConfig([diceId |-> [i \in 1..DiceIdSize |-> g],
                                   padding |-> [i \in 1..6 |-> g],
                                   checksum |-> g])
  /\ configPath = DefaultPath
  /\ lastError = ""
  /\ mounted \in BOOLEAN
  /\ files \in Disks
  /\ last = [op |-> "DiceConfigManager", file |-> <<>>, ret |-> TRUE,
             calls |-> <<>>, find |-> "none"]
  /\ steps = 0

Begin ==
  /\ steps < MaxSteps
  /\ \E explicit \in BOOLEAN, formatOnFail \in BOOLEAN :
     \E path0 \in IF explicit THEN PathInputs ELSE {NoPath} :
     \E mount \in MountAnswers(mounted, formatOnFail) :
     \E rootOk \in IF explicit \/ mount = "fail" THEN {TRUE} ELSE BOOLEAN :
     \E listing \in IF explicit \/ mount = "fail" \/ ~rootOk THEN {<<>>}
                     ELSE Listings(IF mount = "formatted" THEN <<>> ELSE files) :
     \E r \in {begin(config, configPath, lastError, files, path0, explicit,
                      mount, listing, rootOk)} :
          /\ config' = r.config
          /\ configPath' = r.configPath
          /\ lastError' = r.lastError
          /\ mounted' = r.mounted
          /\ files' = r.files
          /\ Called("begin", path0, r.ret, r.calls, r.find)

LoadFile(op, filename) ==
  \E r \in {load(config, lastError, files, mounted, filename)} :
     /\ config' = r.config
     /\ lastError' = r.lastError
     /\ UNCHANGED <<configPath, mounted, files>>
     /\ Called(op, filename, r.ret, <<>>, "none")

\* bool load()
Load ==
  /\ steps < MaxSteps
  /\ LoadFile("load", configPath)

\* bool load(const char* filename)
LoadFrom ==
  /\ steps < MaxSteps
  /\ \E filename \in PathInputs : LoadFile("load", filename)

SaveFile(op, filename) ==
  \E opens \in BOOLEAN :
  \E r \in {save(config, lastError, files, filename, mounted /\ opens)} :
       /\ config' = r.config
       /\ lastError' = r.lastError
       /\ files' = r.files
       /\ UNCHANGED <<configPath, mounted>>
       /\ Called(op, filename, r.ret, <<>>, "none")

\* bool save()
Save ==
  /\ steps < MaxSteps
  /\ SaveFile("save", configPath)

\* bool save(const char* filename)
SaveTo ==
  /\ steps < MaxSteps
  /\ \E filename \in PathInputs : SaveFile("save", filename)

\* void setDefaults()
SetDefaults ==
  /\ steps < MaxSteps
  /\ config' = initDefaultConfig(config)
  /\ UNCHANGED <<configPath, lastError, mounted, files>>
  /\ Called("setDefaults", <<>>, TRUE, <<>>, "none")

\* bool validate()
Validate ==
  /\ steps < MaxSteps
  /\ UNCHANGED <<config, configPath, lastError, mounted, files>>
  /\ Called("validate", <<>>, validate(config), <<>>, "none")

Setter(op, c) ==
  /\ steps < MaxSteps
  /\ config' = c
  /\ UNCHANGED <<configPath, lastError, mounted, files>>
  /\ Called(op, <<>>, TRUE, <<>>, "none")

\* void setDiceId(const char* id)
SetDiceId == \E id \in DiceIdInputs : Setter("setDiceId", [config EXCEPT !.diceId = StrncpyId(id)])

\* void setDeviceAMac(const uint8_t* mac)
SetDeviceAMac == \E mac \in MacInputs : Setter("setDeviceAMac", [config EXCEPT !.deviceA_mac = mac])

\* void setDeviceB1Mac(const uint8_t* mac)
SetDeviceB1Mac == \E mac \in MacInputs : Setter("setDeviceB1Mac", [config EXCEPT !.deviceB1_mac = mac])

\* void setDeviceB2Mac(const uint8_t* mac)
SetDeviceB2Mac == \E mac \in MacInputs : Setter("setDeviceB2Mac", [config EXCEPT !.deviceB2_mac = mac])

\* void setRssiLimit(int8_t limit)
SetRssiLimit == \E limit \in RssiInputs : Setter("setRssiLimit", [config EXCEPT !.rssiLimit = limit])

\* void setIsSMD(bool value)
SetIsSMD == \E value \in BOOLEAN : Setter("setIsSMD", [config EXCEPT !.isSMD = value])

\* void setIsNano(bool value)
SetIsNano == \E value \in BOOLEAN : Setter("setIsNano", [config EXCEPT !.isNano = value])

\* void setAlwaysSeven(bool value)
SetAlwaysSeven == \E value \in BOOLEAN : Setter("setAlwaysSeven", [config EXCEPT !.alwaysSeven = value])

\* DiceConfig& getConfig(), and the caller assigning one member through it
GetConfig ==
  \E w \in FieldWrites : Setter("getConfig", [config EXCEPT ![w[1]] = w[2]])

\* Records the caller built.  The first has the id "AA", tumbleConstant 1.0,
\* zeros elsewhere and padding bytes such that the XOR of its bytes is 0;
\* the second differs in one colour and holds a checksum.
ConfigInputs ==
  LET zero == [ diceId |-> StrncpyId(Chars("AA")),
                deviceA_mac |-> ZeroBytes(MacSize),
                deviceB1_mac |-> ZeroBytes(MacSize),
                deviceB2_mac |-> ZeroBytes(MacSize),
                x_background |-> 0, y_background |-> 0, z_background |-> 0,
                entang_ab1_color |-> 0, entang_ab2_color |-> 0,
                rssiLimit |-> 0, isSMD |-> FALSE, isNano |-> FALSE,
                alwaysSeven |-> FALSE, randomSwitchPoint |-> 0,
                tumbleConstant |-> F32(0, 127, 0),
                deepSleepTimeout |-> U32(0, 0), checksum |-> 0,
                padding |-> <<0, 0, 63, 0, 128, 0>> ]
  IN {zero, [zero EXCEPT !.x_background = 4660, !.checksum = 9]}

\* void setConfig(const DiceConfig& newConfig): the whole object is copied
SetConfig == \E newConfig \in ConfigInputs : Setter("setConfig", newConfig)

Next ==
  \/ Begin
  \/ Load
  \/ LoadFrom
  \/ Save
  \/ SaveTo
  \/ SetDefaults
  \/ Validate
  \/ SetConfig
  \/ SetDiceId
  \/ SetDeviceAMac
  \/ SetDeviceB1Mac
  \/ SetDeviceB2Mac
  \/ SetRssiLimit
  \/ SetIsSMD
  \/ SetIsNano
  \/ SetAlwaysSeven
  \/ GetConfig

Spec == Init /\ [][Next]_vars

\* ------------------------------------------------------------- claims

\* a call was made in this step
Step(op) == last'.op = op /\ steps' = steps + 1

\* The Default Policy record, field by field.
IsDefaultPolicy(c) ==
  /\ CString(c.diceId) = Chars("DEFAULT")
  /\ c.deviceA_mac = <<0, 0, 0, 0, 0, 0>>
  /\ c.deviceB1_mac = <<0, 0, 0, 0, 0, 0>>
  /\ c.deviceB2_mac = <<0, 0, 0, 0, 0, 0>>
  /\ c.x_background = 15 * 4096 + 8 * 256             \* 0xF800
  /\ c.y_background = 7 * 256 + 14 * 16                \* 0x07E0
  /\ c.z_background = 16 + 15                          \* 0x001F
  /\ c.entang_ab1_color = 65535                        \* 0xFFFF
  /\ c.entang_ab2_color = 0
  /\ c.rssiLimit = 0 - 70
  /\ ~c.isSMD /\ ~c.isNano /\ ~c.alwaysSeven
  /\ c.randomSwitchPoint = 50
  /\ FmtF2(c.tumbleConstant) = Chars("2.50") /\ c.tumbleConstant = Atof(Chars("2.5"))
  /\ FmtU32(c.deepSleepTimeout) = Chars("300000")
  /\ c.checksum = 0

\* The entries of the root whose name ends with _config.txt, as paths.
Matches(fs) == {p \in DOMAIN fs : EndsWith(Tail(p), ConfigSuffix)}

\* load(p) on record c fails: no file, or a non-zero checksum that
\* validateChecksum rejects.
LoadFails(fs, p, c) ==
  \/ p \notin DOMAIN fs
  \/ \E d \in {Decode(fs[p], c)} : d.checksum # 0 /\ ~validateChecksum(d)

\* C1: begin() returns false exactly when the mount fails, whatever the
\* path argument, the directory and the files; and then it has called
\* neither findConfigFile nor load and has changed neither the record nor
\* the path.
C1_BeginFailsOnlyOnMount ==
  [][ Step("begin") =>
        /\ last'.ret = mounted'
        /\ ~last'.ret => /\ config' = config
                         /\ configPath' = configPath
                         /\ last'.calls = <<"LittleFS.begin">> ]_vars

\* begin() has failed on the mount, on a record a setter had changed
C1_Witness == last.op = "begin" /\ ~last.ret /\ ~mounted /\ config.isSMD

\* C2: after begin() on a mounted store, when discovery fails (zero or
\* several *_config.txt entries) the record is the Default Policy and the
\* path is /config.txt; when load() of the established path fails (no such
\* file, or checksum mismatch) the record is the Default Policy.
C2_DefaultFallback ==
  [][ Step("begin") /\ mounted' =>
        /\ (last'.file = NoPath /\ Cardinality(Matches(files')) # 1)
             => IsDefaultPolicy(config') /\ configPath' = DefaultPath
        /\ ((last'.file # NoPath \/ Cardinality(Matches(files')) = 1)
             /\ LoadFails(files', configPath', config))
             => IsDefaultPolicy(config') ]_vars

\* begin(path) has found a checksum mismatch in the file and has fallen
\* back to the defaults
C2_Witness ==
  /\ last.op = "begin" /\ last.ret /\ last.file = PathA
  /\ PathA \in DOMAIN files /\ files[PathA] = FileBadSum
  /\ lastError = "Checksum validation failed"
  /\ IsDefaultPolicy(config)

\* C3: after save() has recomputed the checksum, the record passes
\* validateChecksum.
C3_SavedRecordPassesIntegrity == last.op = "save" => validateChecksum(config)

\* C4: the computed checksum does not depend on the checksum the record
\* held before: a second save() right after a save() leaves the checksum
\* as it is.
C4_RecomputeIsStable ==
  [][ last.op = "save" /\ Step("save") => config'.checksum = config.checksum ]_vars

\* C5: load(p) right after a successful save(p) succeeds and gives back
\* every field as saved, tumbleConstant up to its two decimals.
C5_SaveLoadRoundTrip ==
  [][ last.op = "save" /\ last.ret /\ Step("load") /\ last'.file = last.file =>
        /\ last'.ret
        /\ CString(config'.diceId) = CString(config.diceId)
        /\ \A f \in Fields \ {"diceId", "tumbleConstant"} : config'[f] = config[f]
        /\ FmtF2(config'.tumbleConstant) = FmtF2(config.tumbleConstant) ]_vars

RECURSIVE LinesFrom(_, _)
\* The lines load() reads from the text, each as the loop sees it after
\* the carriage return is dropped and the line is trimmed.
LinesFrom(text, pos) ==
  IF pos > Len(text) THEN <<>>
  ELSE CHOOSE r \in { <<CleanLine(rd[1])>> \o LinesFrom(text, rd[2]) :
                        rd \in {ReadLine(text, pos)} } : TRUE

\* The <<key, value>> pairs of the text, in file order.
KeyValues(text) ==
  CHOOSE r \in
    { [i \in 1..Len(ls) |-> SplitAtEquals(ls[i])] :
        ls \in {SelectSeq(LinesFrom(text, 1), LAMBDA l : ~IsSkipped(l))} } : TRUE

MacFields == {"deviceA_mac", "deviceB1_mac", "deviceB2_mac"}

\* The pairs that supply a decodable value for field f: the key is f and,
\* for a MAC, the value is six colon-separated hex groups.
Supplies(kvs, f) ==
  {i \in 1..Len(kvs) :
     /\ kvs[i][1] = Chars(f)
     /\ f \in MacFields => parseMacAddress(kvs[i][2], <<0, 0, 0, 0, 0, 0>>).ok}

\* Field f after the file is read over record c: the value decoded from
\* the last pair that supplies one, else the value c holds.
FieldAfter(kvs, f, c) ==
  LET idx == Supplies(kvs, f)
  IN IF idx = {} THEN c[f]
     ELSE AssignKey(c, Chars(f), kvs[CHOOSE i \in idx : \A j \in idx : j <= i][2])[f]

\* load(p) opened the file in this step
LoadOpened == Step("load") /\ mounted /\ last'.file \in DOMAIN files

OtherChecksPass(c) ==
  /\ CString(c.diceId) # <<>>
  /\ c.randomSwitchPoint <= 100
  /\ ~FloatLeZero(c.tumbleConstant)

\* C7 as stated: validateChecksum(r) is true for every record with
\* checksum 0; load() of an openable file whose decoded checksum is 0
\* succeeds; validate() never fails on integrity when the checksum is 0.
C7_ZeroChecksumAlwaysPasses ==
  [][ /\ config'.checksum = 0 => validateChecksum(config')
      /\ (LoadOpened /\ config'.checksum = 0) => last'.ret
      /\ (Step("validate") /\ config.checksum = 0)
           => (last'.ret <=> OtherChecksPass(config)) ]_vars

\* C7, amended: load() of an openable file whose decoded checksum is 0
\* succeeds, and validate() on a record with checksum 0 returns true exactly
\* when the other three checks pass; both skip the integrity comparison,
\* whatever validateChecksum would answer for the record.
C7_ZeroChecksumSkipsIntegrity ==
  [][ /\ (LoadOpened /\ config'.checksum = 0) => last'.ret
      /\ (Step("validate") /\ config.checksum = 0)
           => (last'.ret <=> OtherChecksPass(config)) ]_vars

\* load() has succeeded on a file with checksum 0 though validateChecksum
\* answers false for the record
C7_Witness ==
  /\ last.op = "load" /\ last.ret /\ last.file \in DOMAIN files
  /\ config.checksum = 0 /\ ~validateChecksum(config)

\* C8: when load(p) opens the file and the decoded checksum is non-zero and
\* validateChecksum rejects it, load returns false, the last error is
\* "Checksum validation failed", and every field the file supplies a
\* decodable value for holds the decoded value, not the prior one.
C8_MismatchFailsWithoutRollback ==
  [][ (LoadOpened /\ \E d \in {Decode(files[last'.file], config)} :
                       d.checksum # 0 /\ ~validateChecksum(d)) =>
        /\ ~last'.ret
        /\ lastError' = "Checksum validation failed"
        /\ \A kvs \in {KeyValues(files[last'.file])} :
             \A f \in Fields :
               Supplies(kvs, f) # {} => config'[f] = FieldAfter(kvs, f, config) ]_vars

\* load() has failed on the checksum of a file and the record holds the
\* diceId, isNano and checksum the file gave
C8_Witness ==
  /\ last.op = "load" /\ ~last.ret
  /\ last.file \in DOMAIN files /\ files[last.file] = FileBadSum
  /\ lastError = "Checksum validation failed"
  /\ CString(config.diceId) = Chars("BAD") /\ config.isNano /\ config.checksum = 7

\* discovery by begin() ran over an opened root directory in this step
Discovered == Step("begin") /\ last'.file = NoPath /\ last'.find \in {"found", "failed"}

\* C9 as stated: discovery succeeds iff exactly one entry name ends with
\* _config.txt, and then the path is "/" followed by that name; with no
\* match the error is the not-found one, with several the multiple-files
\* one, in whatever order the entries are listed.
C9_DiscoveryReturnsTheName ==
  [][ Discovered =>
        \A m \in {Matches(files')} :
          /\ (last'.find = "found") <=> (Cardinality(m) = 1)
          /\ Cardinality(m) = 1 => \A p \in m : configPath' = p
          /\ Cardinality(m) = 0 => last'.calls[3] = "setDefaults"
                                     /\ lastError' = "No *_config.txt file found"
          /\ Cardinality(m) >= 2 => last'.calls[3] = "setDefaults"
                                     /\ lastError' = "Multiple *_config.txt files found" ]_vars

\* C9, amended: when the root directory opens, discovery succeeds iff
\* exactly one entry name ends with _config.txt, and then the path is "/"
\* followed by that name, cut to the first 63 characters (the size of the
\* path buffer less one); with no match the error is the not-found one,
\* with several the multiple-files one, in whatever order the entries are
\* listed.
C9_DiscoveryReturnsTheNameCut ==
  [][ Discovered =>
        \A m \in {Matches(files')} :
          /\ (last'.find = "found") <=> (Cardinality(m) = 1)
          /\ Cardinality(m) = 1 =>
               \A p \in m : configPath' = SubSeq(p, 1, IF Len(p) < 63 THEN Len(p) ELSE 63)
          /\ Cardinality(m) = 0 => last'.calls[3] = "setDefaults"
                                     /\ lastError' = "No *_config.txt file found"
          /\ Cardinality(m) >= 2 => last'.calls[3] = "setDefaults"
                                     /\ lastError' = "Multiple *_config.txt files found" ]_vars

\* discovery has found the one entry whose name is 63 characters long and
\* has returned its path without the last character
C9_Witness ==
  /\ last.op = "begin" /\ last.find = "found"
  /\ Len(configPath) = 63
  /\ \E p \in DOMAIN files : Len(p) = 64 /\ configPath = SubSeq(p, 1, 63)

\* C10: validate() returns true iff diceId is non-empty, randomSwitchPoint
\* <= 100, tumbleConstant > 0 and, when the checksum is non-zero,
\* validateChecksum accepts the record; it changes neither the record,
\* the path nor the last error.
C10_ValidateIffFourConditions ==
  [][ Step("validate") =>
        /\ last'.ret <=> /\ CString(config.diceId) # <<>>
                         /\ config.randomSwitchPoint <= 100
                         /\ FloatGtZero(config.tumbleConstant)
                         /\ config.checksum # 0 => validateChecksum(config)
        /\ config' = config /\ configPath' = configPath /\ lastError' = lastError ]_vars

RECURSIVE TextLines(_, _)
\* The lines of the text as written: the pieces between line feeds.
TextLines(text, pos) ==
  IF pos > Len(text) THEN <<>>
  ELSE CHOOSE r \in
         { <<SubSeq(text, pos, e - 1)>> \o TextLines(text, e + 1) :
             e \in {CHOOSE k \in pos..(Len(text) + 1) :
                      /\ k = Len(text) + 1 \/ text[k] = "\n"
                      /\ \A j \in pos..(k - 1) : text[j] # "\n"} } : TRUE

\* The value is six groups of hexadecimal digits separated by colons.
SixHexGroups(v) ==
  /\ v # <<>> /\ v[1] # ":" /\ v[Len(v)] # ":"
  /\ Cardinality({i \in 1..Len(v) : v[i] = ":"}) = 5
  /\ \A i \in 1..Len(v) : v[i] = ":" \/ IsHexDigit(v[i])
  /\ \A i \in 1..(Len(v) - 1) : ~(v[i] = ":" /\ v[i + 1] = ":")

\* A line the content tolerance is about: blank, a comment, without '=',
\* with an unknown key, or a MAC key whose value is not six hex groups.
Tolerated(raw) ==
  \A line \in {CleanLine(raw)} :
    \/ line = <<>>
    \/ line[1] = "#"
    \/ \A i \in 1..Len(line) : line[i] # "="
    \/ \E kv \in {SplitAtEquals(line)} :
         \/ \A f \in Fields : kv[1] # Chars(f)
         \/ \E f \in MacFields : kv[1] = Chars(f) /\ ~SixHexGroups(kv[2])

RECURSIVE JoinLines(_)
\* The lines written out again, each ended by a line feed.
JoinLines(ls) ==
  IF ls = <<>> THEN <<>> ELSE Head(ls) \o <<"\n">> \o JoinLines(Tail(ls))

\* The text without its tolerated lines.
WithoutTolerated(text) ==
  JoinLines(SelectSeq(TextLines(text, 1), LAMBDA l : ~Tolerated(l)))

\* C11: a line that is blank, starts with '#', has no '=', has an unknown
\* key, or gives a MAC key a value that is not six colon-separated hex
\* groups changes no field, so load() leaves the record it would leave for
\* the file without those lines; and load() of an openable file returns
\* false only when the checksum is non-zero and validateChecksum rejects it.
C11_ToleratedLinesChangeNothing ==
  [][ LoadOpened =>
        /\ ~last'.ret => config'.checksum # 0 /\ ~validateChecksum(config')
        /\ \A kept \in {WithoutTolerated(files[last'.file])} :
             config' = Decode(kept, config) ]_vars

====
